---- MODULE Spec2Model ----
(***************************************************************************)
(* Model of core/errors.go: the error registry errorInfoTab, the set of    *)
(* temporary codes, the fallback infoInternal, and the function errInfo    *)
(* that maps an error value to a response body and an errorInfo.           *)
(*                                                                         *)
(* An error value is a sequence of layers, outermost first.  The last      *)
(* layer is the terminal (root) cause; the layers before it are wrapping   *)
(* layers.  The empty sequence is the nil error.  Every layer carries an   *)
(* identity and a detail text.                                             *)
(***************************************************************************)
EXTENDS Integers, Sequences, FiniteSets, TLC

VARIABLES
    errorInfoTab,         \* package variable: map[error]errorInfo
    temporaryErrorCodes,  \* package variable: map[string]bool
    infoInternal,         \* package variable: errorInfo
    pc,                   \* per goroutine: position inside errInfo
    err,                  \* per goroutine: errInfo's parameter
    root,                 \* per goroutine: local root
    info,                 \* per goroutine: named result info
    ok,                   \* per goroutine: local ok
    body,                 \* per goroutine: named result body
    panicking,            \* per goroutine: the value recover() would return ("" is nil)
    watch,                \* history: the error value whose results are recorded
    seen                  \* history: the results returned so far for watch

vars == <<errorInfoTab, temporaryErrorCodes, infoInternal, pc, err, root, info,
          ok, body, panicking, watch, seen>>

globals == <<errorInfoTab, temporaryErrorCodes, infoInternal>>

-----------------------------------------------------------------------------
(* Bounds *)

\* number of goroutines that may be inside errInfo at once
NumProcs == 2

\* greatest number of wrapping layers around a root cause
MaxWraps == 2

Procs == 1..NumProcs

-----------------------------------------------------------------------------
(* Types errorInfo and detailedError *)

\* the composite literal errorInfo{status, code, message}; a backquote in a
\* message of the source is written as an apostrophe
EI(status, code, message) ==
    [HTTPStatus |-> status, ChainCode |-> code, Message |-> message]

\* the composite literal detailedError{info, detail, temporary}
DE(i, detail, temporary) ==
    [errorInfo |-> i, Detail |-> detail, Temporary |-> temporary]

\* the zero values the named results start with
ZeroInfo == EI(0, "", "")
ZeroBody == DE(ZeroInfo, "", FALSE)

-----------------------------------------------------------------------------
(* Package variables *)

TemporaryErrorCodesInit ==
    ("CH000" :> TRUE) @@ ("CH001" :> TRUE) @@ ("CH761" :> TRUE)

InfoInternalInit == EI(500, "CH000", "Chain API Error")

GeneralTab ==
       ("context.DeadlineExceeded" :> EI(408, "CH001", "Request timed out"))
    @@ ("pg.ErrUserInputNotFound"  :> EI(400, "CH002", "Not found"))
    @@ ("httpjson.ErrBadRequest"   :> EI(400, "CH003", "Invalid request body"))
    @@ ("errBadReqHeader"          :> EI(400, "CH004", "Invalid request header"))
    @@ ("errNotFound"              :> EI(404, "CH006", "Not found"))
    @@ ("errRateLimited"           :> EI(429, "CH007", "Request limit exceeded"))
    @@ ("errLeaderElection"        :> EI(503, "CH008", "Electing a new leader for the core; try again soon"))
    @@ ("errNotAuthenticated"      :> EI(401, "CH009", "Request could not be authenticated"))

CoreTab ==
       ("errUnconfigured"                :> EI(400, "CH100", "This core still needs to be configured"))
    @@ ("errAlreadyConfigured"           :> EI(400, "CH101", "This core has already been configured"))
    @@ ("errBadGenerator"                :> EI(400, "CH102", "Generator URL returned an invalid response"))
    @@ ("errBadBlockPub"                 :> EI(400, "CH103", "Provided Block XPub is invalid"))
    @@ ("rpc.ErrWrongNetwork"            :> EI(502, "CH104", "A peer core is operating on a different blockchain network"))
    @@ ("protocol.ErrTheDistantFuture"   :> EI(400, "CH105", "Requested height is too far ahead"))
    @@ ("errBadSignerURL"                :> EI(400, "CH106", "Block signer URL is invalid"))
    @@ ("errBadSignerPubkey"             :> EI(400, "CH107", "Block signer pubkey is invalid"))
    @@ ("errBadQuorum"                   :> EI(400, "CH108", "Quorum must be greater than 0 if there are signers"))
    @@ ("errProdReset"                   :> EI(400, "CH110", "Reset can only be called in a development system"))
    @@ ("errNoClientTokens"              :> EI(400, "CH120", "Cannot enable client authentication with no client tokens"))
    @@ ("blocksigner.ErrConsensusChange" :> EI(400, "CH150", "Refuse to sign block with consensus change"))

SignersTab ==
       ("signers.ErrBadQuorum" :> EI(400, "CH200", "Quorum must be greater than 1 and less than or equal to the length of xpubs"))
    @@ ("signers.ErrBadXPub"   :> EI(400, "CH201", "Invalid xpub format"))
    @@ ("signers.ErrNoXPubs"   :> EI(400, "CH202", "At least one xpub is required"))
    @@ ("signers.ErrBadType"   :> EI(400, "CH203", "Retrieved type does not match expected type"))

AccessTokenTab ==
       ("accesstoken.ErrBadID"       :> EI(400, "CH300", "Malformed or empty access token id"))
    @@ ("accesstoken.ErrBadType"     :> EI(400, "CH301", "Access tokens must be type client or network"))
    @@ ("accesstoken.ErrDuplicateID" :> EI(400, "CH302", "Access token id is already in use"))
    @@ ("errCurrentToken"            :> EI(400, "CH310", "The access token used to authenticate this request cannot be deleted"))

QueryTab ==
       ("query.ErrBadAfter"               :> EI(400, "CH600", "Malformed pagination parameter 'after'"))
    @@ ("query.ErrParameterCountMismatch" :> EI(400, "CH601", "Incorrect number of parameters to filter"))
    @@ ("filter.ErrBadFilter"             :> EI(400, "CH602", "Malformed query filter"))

BuildTab ==
       ("txbuilder.ErrBadRefData" :> EI(400, "CH700", "Reference data does not match previous transaction's reference data"))
    @@ ("errBadActionType"        :> EI(400, "CH701", "Invalid action type"))
    @@ ("errBadAlias"             :> EI(400, "CH702", "Invalid alias on action"))
    @@ ("errBadAction"            :> EI(400, "CH703", "Invalid action object"))

SubmitTab ==
       ("txbuilder.ErrMissingRawTx"          :> EI(400, "CH730", "Missing raw transaction"))
    @@ ("txbuilder.ErrBadInstructionCount"   :> EI(400, "CH731", "Too many signing instructions in template for transaction"))
    @@ ("txbuilder.ErrBadTxInputIdx"         :> EI(400, "CH732", "Invalid transaction input index"))
    @@ ("txbuilder.ErrBadWitnessComponent"   :> EI(400, "CH733", "Invalid witness component"))
    @@ ("txbuilder.ErrRejected"              :> EI(400, "CH735", "Transaction rejected"))
    @@ ("txbuilder.ErrNoTxSighashCommitment" :> EI(400, "CH736", "Transaction is not final, additional actions still allowed"))

\* mutant: the second account entry reuses the code of the first
AccountTab_DupCode ==
       ("utxodb.ErrInsufficient" :> EI(400, "CH760", "Insufficient funds for tx"))
    @@ ("utxodb.ErrReserved"     :> EI(400, "CH760", "Some outputs are reserved; try again"))

AccountTab ==
       ("utxodb.ErrInsufficient" :> EI(400, "CH760", "Insufficient funds for tx"))
    @@ ("utxodb.ErrReserved"     :> EI(400, "CH761", "Some outputs are reserved; try again"))

MockHSMTab ==
       ("mockhsm.ErrDuplicateKeyAlias" :> EI(400, "CH800", "Duplicate alias for Mock HSM key"))
    @@ ("mockhsm.ErrInvalidAfter"      :> EI(400, "CH801", "Invalid 'after' in query"))

ErrorInfoTabInit ==
    GeneralTab @@ CoreTab @@ SignersTab @@ AccessTokenTab @@ QueryTab
        @@ BuildTab @@ SubmitTab @@ AccountTab @@ MockHSMTab

\* the namespace comment each entry of the table literal stands under
Namespace(k) ==
    CASE k \in DOMAIN GeneralTab     -> "general"
      [] k \in DOMAIN CoreTab        -> "core"
      [] k \in DOMAIN SignersTab     -> "signers"
      [] k \in DOMAIN AccessTokenTab -> "accesstoken"
      [] k \in DOMAIN QueryTab       -> "query"
      [] k \in DOMAIN BuildTab       -> "build"
      [] k \in DOMAIN SubmitTab      -> "submit"
      [] k \in DOMAIN AccountTab     -> "account"
      [] k \in DOMAIN MockHSMTab     -> "mockhsm"

\* the numeric range reserved for a namespace (0xx, 1xx, ..., 70x, 73x, ...)
NamespaceRange(ns) ==
    CASE ns = "general"     -> [lo |-> 0,   hi |-> 99]
      [] ns = "core"        -> [lo |-> 100, hi |-> 199]
      [] ns = "signers"     -> [lo |-> 200, hi |-> 299]
      [] ns = "accesstoken" -> [lo |-> 300, hi |-> 399]
      [] ns = "query"       -> [lo |-> 600, hi |-> 699]
      [] ns = "build"       -> [lo |-> 700, hi |-> 709]
      [] ns = "submit"      -> [lo |-> 730, hi |-> 739]
      [] ns = "account"     -> [lo |-> 760, hi |-> 769]
      [] ns = "mockhsm"     -> [lo |-> 800, hi |-> 809]

Namespaces ==
    {"general", "core", "signers", "accesstoken", "query", "build", "submit",
     "account", "mockhsm"}

\* the text of the code numbered n: "CH" and three decimal digits
FormatCode(n) ==
    "CH" \o ToString(n \div 100) \o ToString((n \div 10) % 10) \o ToString(n % 10)

\* the codes of each namespace's range
NamespaceCodes ==
    [ns \in Namespaces |->
        {FormatCode(n) : n \in NamespaceRange(ns).lo .. NamespaceRange(ns).hi}]

-----------------------------------------------------------------------------
(* Error values and package chain/errors *)

\* a layer of an error value
Layer(id, detail) == [id |-> id, detail |-> detail]

\* identity of a wrapping layer
WrapperId == "errors.wrapper"

\* detail texts a layer may carry; "" is no detail
DetailTexts == {"", "d1", "d2"}

\* root causes with no entry in the table
UnregisteredRoots == {"io.EOF", "errUnregistered"}

\* root causes whose dynamic type cannot be hashed (for example a slice type)
UnhashableRoots == {"sliceError"}

RootIds == DOMAIN ErrorInfoTabInit \cup UnregisteredRoots \cup UnhashableRoots

WrapLayers == {Layer(WrapperId, d) : d \in DetailTexts}

RootLayers == {Layer(r, d) : r \in RootIds, d \in DetailTexts}

NilErr == << >>

\* every error value handed to errInfo: nil, or a root cause under at most
\* MaxWraps wrapping layers
Inputs ==
    {NilErr} \cup
    UNION {{w \o <<r>> : w \in [1..n -> WrapLayers], r \in RootLayers} : n \in 0..MaxWraps}

\* errors.Root: unwrap until the terminal cause, which has no further cause
RECURSIVE Root(_)
Root(e) == IF Len(e) <= 1 THEN e ELSE Root(Tail(e))

\* errors.Detail: the detail text attached to e itself, "" when there is none
Detail(e) == IF e = NilErr THEN "" ELSE Head(e).detail

\* the identity an error value has as a map key
Identity(e) == IF e = NilErr THEN "nil" ELSE Head(e).id

\* whether the runtime can hash e as a key of a map[error]...
Hashable(e) == e = NilErr \/ Head(e).id \notin UnhashableRoots

-----------------------------------------------------------------------------
(* errInfo *)

\* v, ok := m[k] on a map with errorInfo elements
MapIndex(m, k) ==
    IF k \in DOMAIN m THEN [v |-> m[k], ok |-> TRUE]
                      ELSE [v |-> ZeroInfo, ok |-> FALSE]

\* m[k] on a map[string]bool: the zero value false for a missing key
MapBool(m, k) == IF k \in DOMAIN m THEN m[k] ELSE FALSE

\* mutant: the error itself, not its root, is the key
LookupKey_NoUnwrap(e) == e

\* root := errors.Root(err)
LookupKey(e) == Root(e)

\* mutant: the test of ok is inverted
LookupInfo_InvertedOk(r) ==
    LET got == MapIndex(errorInfoTab, Identity(r))
    IN  [info |-> IF got.ok THEN infoInternal ELSE got.v, ok |-> got.ok]

\* mutant: the fallback for a missing entry is left out
LookupInfo_NoFallback(r) ==
    LET got == MapIndex(errorInfoTab, Identity(r))
    IN  [info |-> got.v, ok |-> got.ok]

\* info, ok := errorInfoTab[root]; if !ok { info = infoInternal }
LookupInfo(r) ==
    LET got == MapIndex(errorInfoTab, Identity(r))
    IN  [info |-> IF got.ok THEN got.v ELSE infoInternal, ok |-> got.ok]

\* mutant: Temporary is derived from the HTTP status
MakeBody_TempByStatus(e, i) ==
    DE(i, Detail(e), i.HTTPStatus \in {408, 500, 503})

\* body = detailedError{errorInfo: info, Detail: errors.Detail(err),
\*                      Temporary: temporaryErrorCodes[info.ChainCode]}
MakeBody(e, i) == DE(i, Detail(e), MapBool(temporaryErrorCodes, i.ChainCode))

\* mutant: the deferred function does not call recover
DeferredFunc_NoRecover(pv, b, i) == [body |-> b, info |-> i, panicking |-> pv]

\* mutant: the deferred function overwrites info and leaves body alone
DeferredFunc_InfoOnly(pv, b, i) ==
    IF pv # ""
    THEN [body |-> b, info |-> infoInternal, panicking |-> ""]
    ELSE [body |-> b, info |-> i, panicking |-> pv]

\* the deferred function: if recover() returns a value, both results are
\* overwritten and the panic stops; pv is the value of the panic in flight
DeferredFunc(pv, b, i) ==
    IF pv # ""
    THEN [body |-> DE(infoInternal, "", TRUE), info |-> infoInternal, panicking |-> ""]
    ELSE [body |-> b, info |-> i, panicking |-> pv]

NoWatch == <<Layer("none", "")>>

Init ==
    /\ errorInfoTab = ErrorInfoTabInit
    /\ temporaryErrorCodes = TemporaryErrorCodesInit
    /\ infoInternal = InfoInternalInit
    /\ pc = [p \in Procs |-> "idle"]
    /\ err = [p \in Procs |-> NilErr]
    /\ root = [p \in Procs |-> NilErr]
    /\ info = [p \in Procs |-> ZeroInfo]
    /\ ok = [p \in Procs |-> FALSE]
    /\ body = [p \in Procs |-> ZeroBody]
    /\ panicking = [p \in Procs |-> ""]
    /\ watch = NoWatch
    /\ seen = {}

\* goroutine p enters errInfo(e): the results hold their zero values, the
\* root is resolved and the deferred function is registered
\* pc: "idle" outside errInfo, "lookup" before the map index, "assemble" before
\* the body is built, "deferred" when the deferred function is due, "done" once
\* the call has returned its results, "aborted" once a panic has left errInfo
Call(p, e) ==
    /\ pc[p] = "idle"
    /\ err' = [err EXCEPT ![p] = e]
    /\ root' = [root EXCEPT ![p] = LookupKey(e)]
    /\ info' = [info EXCEPT ![p] = ZeroInfo]
    /\ ok' = [ok EXCEPT ![p] = FALSE]
    /\ body' = [body EXCEPT ![p] = ZeroBody]
    /\ panicking' = [panicking EXCEPT ![p] = ""]
    /\ pc' = [pc EXCEPT ![p] = "lookup"]
    /\ UNCHANGED <<globals, watch, seen>>

\* mutant: the value read from the table is stored back under the key before
\* the fallback is applied
Lookup_Memoize(p) ==
    /\ pc[p] = "lookup"
    /\ IF Hashable(root[p])
       THEN /\ info' = [info EXCEPT ![p] = LookupInfo(root[p]).info]
            /\ ok' = [ok EXCEPT ![p] = LookupInfo(root[p]).ok]
            /\ errorInfoTab' =
                  (Identity(root[p]) :> MapIndex(errorInfoTab, Identity(root[p])).v)
                      @@ errorInfoTab
            /\ pc' = [pc EXCEPT ![p] = "assemble"]
            /\ UNCHANGED panicking
       ELSE /\ panicking' = [panicking EXCEPT ![p] = "runtime error: hash of unhashable type"]
            /\ pc' = [pc EXCEPT ![p] = "deferred"]
            /\ UNCHANGED <<info, ok, errorInfoTab>>
    /\ UNCHANGED <<temporaryErrorCodes, infoInternal, err, root, body, watch, seen>>

\* the map index expression: the runtime panics when the key's dynamic type
\* cannot be hashed, else info and ok are assigned
Lookup(p) ==
    /\ pc[p] = "lookup"
    /\ IF Hashable(root[p])
       THEN /\ info' = [info EXCEPT ![p] = LookupInfo(root[p]).info]
            /\ ok' = [ok EXCEPT ![p] = LookupInfo(root[p]).ok]
            /\ pc' = [pc EXCEPT ![p] = "assemble"]
            /\ UNCHANGED panicking
       ELSE /\ panicking' = [panicking EXCEPT ![p] = "runtime error: hash of unhashable type"]
            /\ pc' = [pc EXCEPT ![p] = "deferred"]
            /\ UNCHANGED <<info, ok>>
    /\ UNCHANGED <<globals, err, root, body, watch, seen>>

\* mutant: reading the flag of a code inserts the code when it is missing
Assemble_InsertsFlag(p) ==
    /\ pc[p] = "assemble"
    /\ body' = [body EXCEPT ![p] = MakeBody(err[p], info[p])]
    /\ temporaryErrorCodes' =
          temporaryErrorCodes @@ (info[p].ChainCode :> FALSE)
    /\ pc' = [pc EXCEPT ![p] = "deferred"]
    /\ UNCHANGED <<errorInfoTab, infoInternal, err, root, info, ok, panicking, watch, seen>>

\* body is assembled and the return statement is reached
Assemble(p) ==
    /\ pc[p] = "assemble"
    /\ body' = [body EXCEPT ![p] = MakeBody(err[p], info[p])]
    /\ pc' = [pc EXCEPT ![p] = "deferred"]
    /\ UNCHANGED <<globals, err, root, info, ok, panicking, watch, seen>>

\* the deferred function runs, on return and on panic alike; the call then
\* returns its results to the caller, or the panic goes on into the caller
RunDeferred(p) ==
    /\ pc[p] = "deferred"
    /\ LET d == DeferredFunc(panicking[p], body[p], info[p])
       IN  /\ body' = [body EXCEPT ![p] = d.body]
           /\ info' = [info EXCEPT ![p] = d.info]
           /\ panicking' = [panicking EXCEPT ![p] = d.panicking]
           /\ pc' = [pc EXCEPT ![p] = IF d.panicking = "" THEN "done" ELSE "aborted"]
           /\ seen' = IF err[p] = watch /\ d.panicking = ""
                      THEN seen \cup {<<d.body, d.info>>}
                      ELSE seen
    /\ UNCHANGED <<globals, err, root, ok, watch>>

\* return body, info: the caller has taken the results and the frame of the
\* call is gone; the goroutine is free to call again
Return(p) ==
    /\ pc[p] = "done"
    /\ pc' = [pc EXCEPT ![p] = "idle"]
    /\ err' = [err EXCEPT ![p] = NilErr]
    /\ root' = [root EXCEPT ![p] = NilErr]
    /\ info' = [info EXCEPT ![p] = ZeroInfo]
    /\ ok' = [ok EXCEPT ![p] = FALSE]
    /\ body' = [body EXCEPT ![p] = ZeroBody]
    /\ UNCHANGED <<globals, panicking, watch, seen>>

\* one goroutine at a time calls errInfo, on any input
Next ==
    \/ \E e \in Inputs : Call(1, e)
    \/ Lookup(1)
    \/ Assemble(1)
    \/ RunDeferred(1)
    \/ Return(1)

Spec == Init /\ [][Next]_vars

\* a goroutine inside errInfo keeps running: the function never blocks
SpecFair ==
    Spec /\ WF_vars(Lookup(1)) /\ WF_vars(Assemble(1)) /\ WF_vars(RunDeferred(1))

\* the inputs of the concurrent specification
ConcInputs ==
    { NilErr,
      <<Layer("context.DeadlineExceeded", "")>>,
      <<Layer(WrapperId, "d1"), Layer("utxodb.ErrInsufficient", "")>>,
      <<Layer("io.EOF", "d1")>>,
      <<Layer("sliceError", "")>>,
      <<Layer(WrapperId, "d1"), Layer("sliceError", "d2")>> }

InitConc ==
    /\ errorInfoTab = ErrorInfoTabInit
    /\ temporaryErrorCodes = TemporaryErrorCodesInit
    /\ infoInternal = InfoInternalInit
    /\ pc = [p \in Procs |-> "idle"]
    /\ err = [p \in Procs |-> NilErr]
    /\ root = [p \in Procs |-> NilErr]
    /\ info = [p \in Procs |-> ZeroInfo]
    /\ ok = [p \in Procs |-> FALSE]
    /\ body = [p \in Procs |-> ZeroBody]
    /\ panicking = [p \in Procs |-> ""]
    /\ watch \in ConcInputs
    /\ seen = {}

\* every goroutine calls errInfo, in any interleaving
NextConc ==
    \E p \in Procs :
        \/ \E e \in ConcInputs : Call(p, e)
        \/ Lookup(p)
        \/ Assemble(p)
        \/ RunDeferred(p)
        \/ Return(p)

SpecConc == InitConc /\ [][NextConc]_vars

-----------------------------------------------------------------------------
(* Properties *)

\* the terminal layer of a non-nil error value
Terminal(e) == e[Len(e)]

Registered(e) == e # NilErr /\ Terminal(e).id \in DOMAIN ErrorInfoTabInit

Unsafe(e) == e # NilErr /\ Terminal(e).id \in UnhashableRoots

Returned(p) == pc[p] = "done"

\* the codes marked temporary
TemporarySet == {c \in DOMAIN temporaryErrorCodes : temporaryErrorCodes[c]}

\* C1: a registered error passed unwrapped is answered with exactly the status,
\* code and message registered for it, its own detail text, and Temporary equal
\* to the membership of its code in the temporary set; the four named examples
\* give the stated values.
C1_RegisteredUnwrapped ==
    \A p \in Procs :
        (Returned(p) /\ Len(err[p]) = 1 /\ Registered(err[p])) =>
            LET k == err[p][1].id
                e == ErrorInfoTabInit[k]
            IN  /\ info[p] = e
                /\ body[p].errorInfo = e
                /\ body[p].Detail = err[p][1].detail
                /\ body[p].Temporary = (e.ChainCode \in TemporarySet)
                /\ (k = "context.DeadlineExceeded" =>
                        /\ info[p] = EI(408, "CH001", "Request timed out")
                        /\ body[p].Temporary)
                /\ (k = "utxodb.ErrInsufficient" =>
                        /\ info[p] = EI(400, "CH760", "Insufficient funds for tx")
                        /\ ~body[p].Temporary)
                /\ (k = "utxodb.ErrReserved" =>
                        /\ info[p] = EI(400, "CH761", "Some outputs are reserved; try again")
                        /\ body[p].Temporary)
                /\ (k = "signers.ErrBadXPub" =>
                        /\ info[p] = EI(400, "CH201", "Invalid xpub format")
                        /\ ~body[p].Temporary)

C1_Witness ==
    /\ Returned(1)
    /\ err[1] = <<Layer("utxodb.ErrReserved", "d1")>>
    /\ body[1] = DE(EI(400, "CH761", "Some outputs are reserved; try again"), "d1", TRUE)

\* an error whose root cause can be hashed and has no entry in the table
Unregistered(e) == Hashable(Root(e)) /\ Identity(Root(e)) \notin DOMAIN ErrorInfoTabInit

\* C2 as stated: an error whose root cause is comparable and unregistered (nil
\* included) is answered with {500, "CH000", "API Error"}, Temporary true and
\* the input's own detail text.
C2_Original ==
    \A p \in Procs :
        (Returned(p) /\ Unregistered(err[p])) =>
            /\ info[p] = EI(500, "CH000", "API Error")
            /\ body[p] = DE(EI(500, "CH000", "API Error"), Detail(err[p]), TRUE)

\* C2 amended: an error whose root cause is comparable and unregistered (nil
\* included) is answered with {500, "CH000", "Chain API Error"}, Temporary true
\* and the input's own detail text.
C2_UnregisteredDefault ==
    \A p \in Procs :
        (Returned(p) /\ Unregistered(err[p])) =>
            /\ info[p] = EI(500, "CH000", "Chain API Error")
            /\ body[p] = DE(EI(500, "CH000", "Chain API Error"), Detail(err[p]), TRUE)

C2_Witness ==
    /\ Returned(1)
    /\ err[1] = <<Layer("io.EOF", "d2")>>
    /\ ~ok[1]
    /\ body[1].Detail = "d2"
    /\ body[1].errorInfo.ChainCode = "CH000"

\* C3: a registered root cause under one or more wrapping layers is answered
\* with the root's registered status, code and message, and with the detail
\* text of the outermost layer, not the root's own.
C3_WrappedRegistered ==
    \A p \in Procs :
        (Returned(p) /\ Len(err[p]) >= 2 /\ Registered(err[p])) =>
            /\ info[p] = ErrorInfoTabInit[Terminal(err[p]).id]
            /\ body[p].errorInfo = ErrorInfoTabInit[Terminal(err[p]).id]
            /\ body[p].Detail = err[p][1].detail

C3_Witness ==
    /\ Returned(1)
    /\ err[1] = <<Layer(WrapperId, "d1"), Layer(WrapperId, ""), Layer("signers.ErrBadXPub", "d2")>>
    /\ info[1] = EI(400, "CH201", "Invalid xpub format")
    /\ body[1].Detail = "d1"

\* C4: an error whose root cause cannot be a map key is answered with the
\* default entry (status 500, code CH000) both in the body and as the returned
\* entry, and the fault of the lookup never leaves the call.
C4_UnsafeKeyRecovered ==
    \A p \in Procs :
        /\ pc[p] # "aborted"
        /\ (pc[p] \in {"idle", "done"}) => panicking[p] = ""
        /\ (Returned(p) /\ Unsafe(err[p])) =>
              /\ info[p] = infoInternal
              /\ info[p].HTTPStatus = 500
              /\ info[p].ChainCode = "CH000"
              /\ body[p].errorInfo = info[p]

C4_Witness ==
    /\ Returned(1)
    /\ err[1] = <<Layer(WrapperId, "d1"), Layer("sliceError", "")>>
    /\ info[1].ChainCode = "CH000"
    /\ body[1].errorInfo.HTTPStatus = 500

\* what a finished call has returned is well formed
WellFormed(p) ==
    /\ pc[p] # "aborted"
    /\ Returned(p) =>
          /\ info[p] \in {ErrorInfoTabInit[k] : k \in DOMAIN ErrorInfoTabInit}
                            \cup {InfoInternalInit}
          /\ body[p].errorInfo = info[p]
          /\ body[p].Detail \in DetailTexts
          /\ body[p].Temporary \in BOOLEAN

InCall(p) == pc[p] \in {"lookup", "assemble", "deferred"}

\* C5: every call of errInfo, on any input, completes and returns a well-formed
\* result: the returned entry is an entry of the table or the default entry,
\* the body carries that same entry, and no call ends aborted.
C5_Total ==
    /\ [](\A p \in Procs : WellFormed(p))
    /\ (InCall(1) ~> Returned(1))

C5_Witness ==
    /\ Returned(1)
    /\ Unsafe(err[1])
    /\ Len(err[1]) = 3
    /\ body[1].errorInfo = info[1]

\* C6: two calls on the same error value return the same results, whatever
\* other calls ran between them or at the same time.
C6_Idempotent ==
    /\ Cardinality(seen) <= 1
    /\ \A p, q \in Procs :
          (Returned(p) /\ Returned(q) /\ err[p] = err[q]) =>
              (body[p] = body[q] /\ info[p] = info[q])
    /\ \A p \in Procs :
          (Returned(p) /\ err[p] = watch) => seen = {<<body[p], info[p]>>}

C6_Witness ==
    /\ watch = <<Layer("io.EOF", "d1")>>
    /\ seen # {}
    /\ Returned(1) /\ err[1] = watch
    /\ pc[2] = "deferred" /\ err[2] = watch /\ body[2] # ZeroBody

\* C7: no two entries of the table share a code, none uses the default entry's
\* code, every entry's code lies in the range of its namespace, and the ranges
\* do not overlap.
C7_Namespaces ==
    /\ Cardinality({errorInfoTab[k].ChainCode : k \in DOMAIN errorInfoTab})
          = Cardinality(DOMAIN errorInfoTab)
    /\ \A k \in DOMAIN errorInfoTab :
          /\ errorInfoTab[k].ChainCode # infoInternal.ChainCode
          /\ errorInfoTab[k].ChainCode \in NamespaceCodes[Namespace(k)]
    /\ \A a, b \in Namespaces : a # b => NamespaceCodes[a] \cap NamespaceCodes[b] = {}

C7_Witness ==
    /\ Cardinality(DOMAIN errorInfoTab) = 45
    /\ Returned(1)
    /\ info[1] = errorInfoTab["mockhsm.ErrInvalidAfter"]

\* C8: the table, the temporary codes and the default entry hold their initial
\* contents after any interleaving of calls, recovered faults included.
C8_GlobalsUnchanged ==
    /\ errorInfoTab = ErrorInfoTabInit
    /\ temporaryErrorCodes = TemporaryErrorCodesInit
    /\ infoInternal = InfoInternalInit

C8_Witness ==
    /\ Returned(1) /\ Unsafe(err[1])
    /\ Returned(2) /\ Unregistered(err[2])

\* C9 as stated: on every path, the recovered lookup fault included, the
\* returned Detail is the detail text attached to the input error.
C9_DetailOnEveryPath ==
    \A p \in Procs : Returned(p) => body[p].Detail = Detail(err[p])

\* C10: in every response Temporary is true exactly when the code is one of
\* CH000, CH001, CH761, whatever the status: CH761 and CH760 (both 400) differ,
\* and CH008 (503) is not temporary.
C10_TemporaryByCode ==
    \A p \in Procs :
        Returned(p) =>
            /\ body[p].Temporary = (body[p].errorInfo.ChainCode \in {"CH000", "CH001", "CH761"})
            /\ (Registered(err[p]) /\ Terminal(err[p]).id = "utxodb.ErrReserved") =>
                  (info[p].HTTPStatus = 400 /\ body[p].Temporary)
            /\ (Registered(err[p]) /\ Terminal(err[p]).id = "utxodb.ErrInsufficient") =>
                  (info[p].HTTPStatus = 400 /\ ~body[p].Temporary)
            /\ (Registered(err[p]) /\ Terminal(err[p]).id = "errLeaderElection") =>
                  (info[p].HTTPStatus = 503 /\ ~body[p].Temporary)
            /\ (Registered(err[p])
                  /\ Terminal(err[p]).id \notin {"context.DeadlineExceeded", "utxodb.ErrReserved"}) =>
                  ~body[p].Temporary

C10_Witness ==
    /\ Returned(1)
    /\ err[1] = <<Layer("errLeaderElection", "")>>
    /\ info[1].HTTPStatus = 503
    /\ ~body[1].Temporary

====
